---- MODULE Spec2Model ----
(***************************************************************************)
(* Model of the aerodynamics package: the atmosphere model                 *)
(* (atmosphere.py), the force model (forces.py), the parameter record      *)
(* (aircraft_params.py) and the time-stepping integrator (simulation.py).  *)
(*                                                                         *)
(* Number representation.  Python floats are modelled as fixed-point       *)
(* integers: the integer x stands for the real number x / SCALE            *)
(* (SCALE = 10^6).  Products and quotients are truncated toward zero, and  *)
(* are computed by splitting the operands so that no intermediate value    *)
(* leaves the 32-bit integer range.  The one exception is altitude:        *)
(* altitudes above 2147 m do not fit at 10^6, so                           *)
(* every altitude_m value is held in millimetres (x stands for x / KILO).  *)
(***************************************************************************)
EXTENDS Integers, Sequences, FiniteSets, TLC

\* ------------------------------------------------------------------------
\* Fixed-point arithmetic standing for Python's float operators
\* ------------------------------------------------------------------------

KILO == 10 * 10 * 10
SCALE == KILO * KILO

Abs(x) == IF x < 0 THEN 0 - x ELSE x

Sgn(x) == IF x < 0 THEN 0 - 1 ELSE 1

Max2(a, b) == IF b > a THEN b ELSE a

Min2(a, b) == IF b < a THEN b ELSE a

\* a * b for non-negative fixed-point a, b: floor(a * b / SCALE), exactly.
MulAbs(a, b) ==
    LET ah == a \div KILO
        al == a % KILO
        bh == b \div KILO
        bl == b % KILO
    IN  ah * bh + ((ah * bl + al * bh) + ((al * bl) \div KILO)) \div KILO

\* float product a * b
MulF(a, b) == Sgn(a) * Sgn(b) * MulAbs(Abs(a), Abs(b))

\* Long division: q + r / b is the exact quotient so far; each round brings
\* down one more decimal digit (as a factor 5 and a factor 2).
RECURSIVE LongDiv(_, _, _, _)
LongDiv(q, r, b, s) ==
    IF s = 1 THEN q
    ELSE LET r5 == r * 5
             q5 == q * 5 + (r5 \div b)
             r2 == (r5 % b) * 2
             q2 == q5 * 2 + (r2 \div b)
         IN  LongDiv(q2, r2 % b, b, s \div 10)

\* float quotient a / b for b # 0 (Python raises ZeroDivisionError for b = 0;
\* every caller guards that case before dividing)
DivF(a, b) ==
    Sgn(a) * Sgn(b) * LongDiv(Abs(a) \div Abs(b), Abs(a) % Abs(b), Abs(b), SCALE)

\* quotient of a fixed-point value by a small natural number
DivN(a, n) == Sgn(a) * (Abs(a) \div n)

\* product of a fixed-point factor c and an altitude h held in millimetres;
\* the result is at SCALE
MulAlt(c, h) ==
    Sgn(c) * Sgn(h) *
        (Abs(c) * (Abs(h) \div KILO) + (Abs(c) * (Abs(h) % KILO)) \div KILO)

\* a fixed-point length in metres as an altitude increment in millimetres
ToAlt(x) == Sgn(x) * (Abs(x) \div KILO)

\* natural logarithm of x > 0: 2 * atanh((x - 1) / (x + 1)) by its series
RECURSIVE LnSeries(_, _, _)
LnSeries(p, z2, n) ==
    IF p = 0 THEN 0 ELSE DivN(p, n) + LnSeries(MulF(p, z2), z2, n + 2)

Ln(x) ==
    LET z == DivF(x - SCALE, x + SCALE)
    IN  2 * LnSeries(z, MulF(z, z), 1)

\* e^y by its Taylor series
RECURSIVE ExpSeries(_, _, _)
ExpSeries(t, y, k) ==
    IF t = 0 THEN 0 ELSE t + ExpSeries(DivN(MulF(t, y), k), y, k + 1)

Exp(y) == ExpSeries(SCALE, y, 1)

\* float power b ** y for b > 0
Pow(b, y) == Exp(MulF(y, Ln(b)))

\* math.pi
PI == 3141593

\* math.radians(deg) = deg * (pi / 180)
Radians(deg) == DivN(MulF(deg, PI), 180)

\* ------------------------------------------------------------------------
\* constants.py
\* ------------------------------------------------------------------------

GRAVITY == 9810000

RHO_SEA_LEVEL == 1225000

TEMP_SEA_LEVEL == 288150000

LAPSE_RATE == 6500

GAS_CONSTANT == 287050000

\* ------------------------------------------------------------------------
\* atmosphere.py
\* ------------------------------------------------------------------------

\* (GRAVITY * 0.0289644) / (GAS_CONSTANT * LAPSE_RATE) - 1
DensityExponent ==
    DivF(MulF(GRAVITY, 28964), MulF(GAS_CONSTANT, LAPSE_RATE)) - SCALE

\* RHO_SEA_LEVEL * (T / TEMP_SEA_LEVEL) ** (...) with T the temperature at
\* altitude h (millimetres)
TroposphereDensity(h) ==
    LET T == TEMP_SEA_LEVEL - MulAlt(LAPSE_RATE, h)
    IN  MulF(RHO_SEA_LEVEL, Pow(DivF(T, TEMP_SEA_LEVEL), DensityExponent))

air_density(altitude_m) ==
    IF altitude_m <= 0 THEN RHO_SEA_LEVEL
    ELSE IF altitude_m > 11000 * KILO
         THEN LET rho_11 == TroposphereDensity(11000 * KILO)
              IN  MulF(rho_11,
                       Pow(2718000, MulAlt(0 - 157, altitude_m - 11000 * KILO)))
         ELSE TroposphereDensity(altitude_m)

\* ------------------------------------------------------------------------
\* forces.py
\* ------------------------------------------------------------------------

lift_coefficient(angle_of_attack_rad, cl_alpha) ==
    MulF(cl_alpha, angle_of_attack_rad)

drag_coefficient(cl, cd0, aspect_ratio, oswald_efficiency) ==
    IF aspect_ratio <= 0 \/ oswald_efficiency <= 0 THEN cd0
    ELSE cd0 + DivF(MulF(cl, cl),
                    MulF(MulF(PI, oswald_efficiency), aspect_ratio))

dynamic_pressure(rho, velocity) ==
    MulF(MulF(MulF(SCALE \div 2, rho), velocity), velocity)

compute_lift(params) ==
    LET rho == air_density(params.altitude_m)
        alpha_rad == Radians(params.angle_of_attack_deg)
        cl == lift_coefficient(alpha_rad, params.cl_alpha)
        q == dynamic_pressure(rho, params.airspeed_m_s)
    IN  MulF(MulF(q, params.wing_area_m2), cl)

compute_drag(params) ==
    LET rho == air_density(params.altitude_m)
        alpha_rad == Radians(params.angle_of_attack_deg)
        cl == lift_coefficient(alpha_rad, params.cl_alpha)
        cd == drag_coefficient(cl, params.cd0, params.aspect_ratio,
                               params.oswald_efficiency)
        q == dynamic_pressure(rho, params.airspeed_m_s)
    IN  MulF(MulF(q, params.wing_area_m2), cd)

compute_thrust_unclamped(params) ==
    MulF(params.max_thrust_N, params.thrust_ratio)

compute_thrust(params) ==
    MulF(params.max_thrust_N, Max2(0, Min2(SCALE, params.thrust_ratio)))

compute_weight(params) == MulF(params.mass_kg, GRAVITY)

\* ------------------------------------------------------------------------
\* aircraft_params.py: the parameter record as a Python object
\* ------------------------------------------------------------------------

\* the dataclass fields of AircraftParams
Fields ==
    {"mass_kg", "wing_area_m2", "aspect_ratio", "cl_alpha", "cd0",
     "oswald_efficiency", "max_thrust_N", "thrust_ratio", "altitude_m",
     "airspeed_m_s", "angle_of_attack_deg"}

\* attributes every instance inherits from the class: the method copy_with
ClassAttributes == {"copy_with"}

\* hasattr(obj, k): k is in the instance dictionary or is a class attribute
hasattr(obj, k) == k \in DOMAIN obj \/ k \in ClassAttributes

\* setattr(obj, k, v): bind k in the instance dictionary
setattr(obj, k, v) ==
    [n \in (DOMAIN obj) \cup {k} |-> IF n = k THEN v ELSE obj[n]]

\* the method copy_with is intact while no instance attribute shadows it
copy_with_callable(obj) == "copy_with" \notin DOMAIN obj

\* ------------------------------------------------------------------------
\* simulation.py
\* ------------------------------------------------------------------------

\* SimulationState(altitude_m=..., airspeed_m_s=..., angle_of_attack_deg=...)
SimulationState(altitude, airspeed, alpha) ==
    [altitude_m |-> altitude, airspeed_m_s |-> airspeed,
     angle_of_attack_deg |-> alpha, time_s |-> 0,
     lift_N |-> 0, drag_N |-> 0, thrust_N |-> 0, weight_N |-> 0,
     acceleration_m_s2 |-> 0]

sync_skipped(p, st) == p

sync_writes_throttle(p, st) ==
    [p EXCEPT !.altitude_m = st.altitude_m,
              !.airspeed_m_s = st.airspeed_m_s,
              !.angle_of_attack_deg = st.angle_of_attack_deg,
              !.thrust_ratio = Max2(0, Min2(SCALE, p.thrust_ratio))]

sync_params_from_state(p, st) ==
    [p EXCEPT !.altitude_m = st.altitude_m,
              !.airspeed_m_s = st.airspeed_m_s,
              !.angle_of_attack_deg = st.angle_of_attack_deg]

\* max(5.0, v + axial * dt)
new_airspeed(v, axial, dt) == Max2(5 * SCALE, v + MulF(axial, dt))

new_altitude_unfloored(altitude, airspeed, T, D, W, dt) ==
    IF W > 0
    THEN LET sin_gamma == Max2(0 - SCALE \div 2, Min2(SCALE \div 2, DivF(T - D, W)))
             climb_rate == MulF(airspeed, sin_gamma)
         IN  altitude + ToAlt(MulF(climb_rate, dt))
    ELSE altitude

\* lines 94-99: the climb/descent update; airspeed is the state's airspeed at
\* that point, which line 91 has already updated
new_altitude(altitude, airspeed, T, D, W, dt) ==
    IF W > 0
    THEN LET sin_gamma == Max2(0 - SCALE \div 2, Min2(SCALE \div 2, DivF(T - D, W)))
             climb_rate == MulF(airspeed, sin_gamma)
         IN  Max2(0, altitude + ToAlt(MulF(climb_rate, dt)))
    ELSE altitude

\* What "return self.state" hands to the caller: a reference into the heap.
return_copy(h, ref) ==
    [heap |-> Append(h, h[ref]), ref |-> Len(h) + 1]

return_state(h, ref) == [heap |-> h, ref |-> ref]

\* step(): the effect on the parameter record p and the state record st.
\* raised is TRUE when line 80 divides by a zero mass (ZeroDivisionError):
\* the sync of line 71 has happened by then, no field of the state is written.
step(p0, st, dt) ==
    LET p == sync_params_from_state(p0, st)
        L == compute_lift(p)
        D == compute_drag(p)
        T == compute_thrust(p)
        W == compute_weight(p)
    IN  IF p.mass_kg = 0
        THEN [params |-> p, state |-> st, raised |-> TRUE]
        ELSE LET axial == DivF(T - D, p.mass_kg)
                 v_new == new_airspeed(st.airspeed_m_s, axial, dt)
                 h_new == new_altitude(st.altitude_m, v_new, T, D, W, dt)
             IN  [params |-> p,
                  state |-> [st EXCEPT !.lift_N = L,
                                       !.drag_N = D,
                                       !.thrust_N = T,
                                       !.weight_N = W,
                                       !.acceleration_m_s2 = axial,
                                       !.airspeed_m_s = v_new,
                                       !.altitude_m = h_new,
                                       !.time_s = @ + dt],
                  raised |-> FALSE]

\* set_params(k=v): one keyword argument (a call with several is the loop of
\* lines 106-108 over them, one after the other)
set_params(p, k, v) == IF hasattr(p, k) THEN setattr(p, k, v) ELSE p

\* ------------------------------------------------------------------------
\* The program as a state machine
\* ------------------------------------------------------------------------

VARIABLES
    params,   \* the AircraftParams object shared by the caller and the simulator
    dt_s,     \* AerodynamicsSimulator.dt_s
    heap,     \* the SimulationState objects, by reference
    snaps,    \* the references the Step calls have returned, oldest first
    calls,    \* how many step() and set_params() calls have been made
    last,     \* the latest call, with the records as they were before it
    probe     \* the latest direct call of air_density and its result

vars == <<params, dt_s, heap, snaps, calls, last, probe>>

\* self.state: the one record the constructor allocates
SelfState == 1

MaxSteps == 3

MaxSets == 1

MaxAltIndex == 105

\* parameter records the caller constructs (small SI values; see the note on
\* the number representation)
InitParams ==
    [mass_kg : {2 * SCALE, 0 - SCALE},
     wing_area_m2 : {SCALE},
     aspect_ratio : {8 * SCALE},
     cl_alpha : {5500000},
     cd0 : {25000},
     oswald_efficiency : {820000},
     max_thrust_N : {0, 10 * SCALE},
     thrust_ratio : {SCALE},
     altitude_m : {0 - 2 * KILO, 12000 * KILO},
     airspeed_m_s : {2 * SCALE, 10 * SCALE},
     angle_of_attack_deg : {3 * SCALE}]

\* keyword arguments the caller passes to set_params
SetChoices ==
    {<<"angle_of_attack_deg", 5 * SCALE>>,
     <<"thrust_ratio", 1500000>>,
     <<"thrust_ratio", 0 - 200000>>,
     <<"altitude_m", 500 * KILO>>,
     <<"mass_kg", 0>>,
     <<"copy_with", SCALE>>,
     <<"flaps", SCALE>>}

\* altitudes at which air_density is called directly: every 200 m from
\* -1000 m (the seam at 11000 m is one of them)
AltSamples == {k * 200 * KILO : k \in (0 - 5)..MaxAltIndex}

NoProbe == [called |-> FALSE, altitude_m |-> 0, rho |-> 0]

\* AerodynamicsSimulator(params, dt_s)
Init ==
    /\ params \in InitParams
    /\ dt_s \in {SCALE \div 10}
    /\ heap = <<SimulationState(params.altitude_m, params.airspeed_m_s,
                                params.angle_of_attack_deg)>>
    /\ snaps = <<>>
    /\ calls = [step |-> 0, set_params |-> 0]
    /\ last = [op |-> "construct", raised |-> FALSE, params |-> params,
               state |-> heap[SelfState], name |-> "", value |-> 0,
               prev |-> [op |-> "", name |-> "", value |-> 0]]
    /\ probe = NoProbe

\* sim.step()
Step ==
    /\ calls.step < MaxSteps
    /\ LET r == step(params, heap[SelfState], dt_s)
           out == return_state([heap EXCEPT ![SelfState] = r.state], SelfState)
       IN  /\ params' = r.params
           /\ heap' = IF r.raised THEN heap ELSE out.heap
           /\ snaps' = IF r.raised THEN snaps ELSE Append(snaps, out.ref)
           /\ last' = [op |-> "step", raised |-> r.raised, params |-> params,
                       state |-> heap[SelfState], name |-> "", value |-> 0,
                       prev |-> [op |-> last.op, name |-> last.name,
                                 value |-> last.value]]
    /\ calls' = [calls EXCEPT !.step = @ + 1]
    /\ UNCHANGED <<dt_s, probe>>

\* sim.set_params(k=v)
SetParameters(k, v) ==
    /\ calls.set_params < MaxSets
    /\ params' = set_params(params, k, v)
    /\ last' = [op |-> "set_params", raised |-> FALSE, params |-> params,
                state |-> heap[SelfState], name |-> k, value |-> v,
                prev |-> [op |-> last.op, name |-> last.name,
                          value |-> last.value]]
    /\ calls' = [calls EXCEPT !.set_params = @ + 1]
    /\ UNCHANGED <<dt_s, heap, snaps, probe>>

Next ==
    \/ Step
    \/ \E c \in SetChoices : SetParameters(c[1], c[2])

Spec == Init /\ [][Next]_vars

\* rho = air_density(h), called directly
AirDensityCall(h) ==
    /\ probe' = [called |-> TRUE, altitude_m |-> h, rho |-> air_density(h)]
    /\ UNCHANGED <<params, dt_s, heap, snaps, calls, last>>

NextAtm == \E h \in AltSamples : AirDensityCall(h)

\* the direct calls are made on one freshly constructed simulator
InitAtm ==
    /\ Init
    /\ params.mass_kg > 0
    /\ params.max_thrust_N > 0
    /\ params.altitude_m > 0
    /\ params.airspeed_m_s >= 5 * SCALE

SpecAtm == InitAtm /\ [][NextAtm]_vars

\* ------------------------------------------------------------------------
\* Properties
\* ------------------------------------------------------------------------

StepReturned == last.op = "step" /\ ~last.raised

SyncedFields == {"altitude_m", "airspeed_m_s", "angle_of_attack_deg"}

\* C1: a Step that directly follows set_params(angle_of_attack_deg = x)
\* caches the lift and drag of angle of attack x (at the state's pre-step
\* altitude and airspeed).
SetAngleOfAttackTakesEffect ==
    (StepReturned /\ last.prev.op = "set_params"
                  /\ last.prev.name = "angle_of_attack_deg")
    => LET p == [last.params EXCEPT
                    !.altitude_m = last.state.altitude_m,
                    !.airspeed_m_s = last.state.airspeed_m_s,
                    !.angle_of_attack_deg = last.prev.value]
       IN  /\ heap[SelfState].lift_N = compute_lift(p)
           /\ heap[SelfState].drag_N = compute_drag(p)

\* C2: a Step made with weight <= 0 (mass = 0 included) raises nothing,
\* leaves the altitude unchanged and advances the elapsed time by dt.
DegenerateMassStepCompletes ==
    (last.op = "step" /\ compute_weight(last.params) <= 0)
    => /\ ~last.raised
       /\ heap[SelfState].altitude_m = last.state.altitude_m
       /\ heap[SelfState].time_s = last.state.time_s + dt_s

\* C3 (as stated): after every Step call the altitude is >= 0, whatever the
\* initial altitude and the mass.
AltitudeFlooredAfterEveryStep ==
    last.op = "step" => heap[SelfState].altitude_m >= 0

\* C3 (amended): after every Step call made with weight > 0 the altitude
\* is >= 0.
AltitudeFlooredWhenWeightPositive ==
    (last.op = "step" /\ compute_weight(last.params) > 0)
    => heap[SelfState].altitude_m >= 0

\* a Step with weight > 0 started below ground and was floored to 0
AltitudeFloorApplied ==
    /\ StepReturned
    /\ compute_weight(last.params) > 0
    /\ last.state.altitude_m < 0
    /\ heap[SelfState].altitude_m = 0

\* C4: after every Step call the airspeed is >= 5.0.
AirspeedFlooredAfterEveryStep ==
    last.op = "step" => heap[SelfState].airspeed_m_s >= 5 * SCALE

\* C5: set_params(k = v) with k a field sets that field and nothing else;
\* with k not a field it raises nothing and leaves the parameter record
\* (its fields and its method copy_with) and the simulation state unchanged.
SetParamsOnlyOverridesFields ==
    last.op = "set_params"
    => /\ ~last.raised
       /\ heap[SelfState] = last.state
       /\ IF last.name \in Fields
          THEN params = [last.params EXCEPT ![last.name] = last.value]
          ELSE params = last.params /\ copy_with_callable(params)

\* the forces at the state's pre-step altitude, airspeed and angle of attack
FlightCondition(p, st) ==
    [p EXCEPT !.altitude_m = st.altitude_m,
              !.airspeed_m_s = st.airspeed_m_s,
              !.angle_of_attack_deg = st.angle_of_attack_deg]

StepFrame ==
    last.op = "step"
    => /\ heap[SelfState].angle_of_attack_deg = last.state.angle_of_attack_deg
       /\ DOMAIN params = DOMAIN last.params
       /\ \A k \in (DOMAIN params) \ SyncedFields : params[k] = last.params[k]
       /\ \A k \in SyncedFields : params[k] = last.state[k]

\* a Step whose sync overwrote a field of the parameter record while the
\* stored throttle ratio was out of range
StepSyncWrote ==
    /\ last.op = "step"
    /\ last.params.altitude_m # params.altitude_m
    /\ last.params.thrust_ratio > SCALE

\* C8: for max_thrust >= 0, compute_thrust lies in [0, max_thrust], is
\* max_thrust for a stored ratio >= 1 and 0 for a stored ratio <= 0, and the
\* thrust cached by a Step is that value.
ThrottleClamped ==
    params.max_thrust_N >= 0
    => /\ compute_thrust(params) >= 0
       /\ compute_thrust(params) <= params.max_thrust_N
       /\ params.thrust_ratio >= SCALE
            => compute_thrust(params) = params.max_thrust_N
       /\ params.thrust_ratio <= 0 => compute_thrust(params) = 0
       /\ StepReturned =>
            /\ heap[SelfState].thrust_N >= 0
            /\ heap[SelfState].thrust_N <= params.max_thrust_N
            /\ params.thrust_ratio >= SCALE
                 => heap[SelfState].thrust_N = params.max_thrust_N
            /\ params.thrust_ratio <= 0 => heap[SelfState].thrust_N = 0

\* a Step cached the thrust while the stored ratio was 1.5 and max_thrust > 0
StepWithThrottleAboveOne ==
    /\ StepReturned
    /\ params.thrust_ratio = 1500000
    /\ params.max_thrust_N > 0
    /\ heap[SelfState].thrust_N = params.max_thrust_N

\* the density the specification gives for altitude h (millimetres), with
\* e^x for the stratosphere decay
SpecifiedDensity(h) ==
    IF h <= 0 THEN 1225000
    ELSE IF h <= 11000 * KILO THEN TroposphereDensity(h)
    ELSE MulF(TroposphereDensity(11000 * KILO),
              Exp(MulAlt(0 - 157, h - 11000 * KILO)))

\* C9: air_density returns the specified density (to within 10^-5, well
\* above the rounding of the fixed-point series) at every altitude.
AirDensityMatchesSpecification ==
    probe.called
    => Abs(probe.rho - SpecifiedDensity(probe.altitude_m)) <= 10

\* C10: every reference a Step returned is the simulator's own state record,
\* so every earlier one shows what the latest one shows.
StepReturnsRetainedState ==
    \A i \in 1..Len(snaps) :
        /\ snaps[i] = SelfState
        /\ heap[snaps[i]] = heap[snaps[Len(snaps)]]

\* two Steps returned, and the first returned record shows the time of the
\* second
FirstSnapshotShowsSecondStep ==
    /\ Len(snaps) >= 2
    /\ heap[snaps[1]].time_s = 2 * dt_s
    /\ heap[snaps[1]].airspeed_m_s # last.state.airspeed_m_s

====
